---------------------------- MODULE Spec2Model ----------------------------
(***************************************************************************)
(* State-machine model of pptx/oxml/shapes/shared.py: the shape element    *)
(* classes (BaseShapeElement, CT_ShapeProperties, CT_Transform2D,          *)
(* CT_LineProperties, CT_NonVisualDrawingProps,                            *)
(* CT_ApplicationNonVisualDrawingProps, CT_Placeholder, CT_Point2D,        *)
(* CT_PositiveSize2D) over an XML element tree.                            *)
(*                                                                         *)
(* The tree is held per element: kids[e] is the ordered child list of      *)
(* element e, attrs[e] its attribute map (attribute name -> XML string).   *)
(* A child is a record [tag, gen]; gen distinguishes element objects of    *)
(* the same tag under the same parent (0 = came with the parsed document,  *)
(* n > 0 = the n-th one created by a descriptor).                          *)
(*                                                                         *)
(* The descriptors ZeroOrOne, ZeroOrOneChoice, OptionalAttribute and       *)
(* RequiredAttribute live in pptx/oxml/xmlchemy.py and the value codecs in *)
(* pptx/oxml/simpletypes.py; they are modelled from the design document.   *)
(***************************************************************************)
EXTENDS Integers, Sequences, FiniteSets, TLC

VARIABLES
    root,   \* tag of the element the caller holds (the document's top element)
    kids,   \* kids[e]  : Seq of [tag, gen], children of element e in document order
    attrs,  \* attrs[e] : attribute name -> encoded string, for the attributes present
    made,   \* made[e][t] : number of t elements created so far under e
    last    \* the last call made: [op, on, name, val, ret]

vars == <<root, kids, attrs, made, last>>

\* Bound on how many elements of one tag are ever created under one parent.
MaxGen == 2

(***************************************************************************)
(* Python's s[i:] on a tuple (0-based).                                    *)
(***************************************************************************)
From(s, i) == SubSeq(s, i + 1, Len(s))

Range(s) == {s[i] : i \in 1..Len(s)}

(***************************************************************************)
(* Declared tag sequences and child slots.                                 *)
(***************************************************************************)
CT_ShapeProperties_tag_seq ==
    << "a:xfrm", "a:custGeom", "a:prstGeom", "a:noFill", "a:solidFill",
       "a:gradFill", "a:blipFill", "a:pattFill", "a:grpFill", "a:ln",
       "a:effectLst", "a:effectDag", "a:scene3d", "a:sp3d", "a:extLst" >>

CT_ShapeProperties_xfrm ==
    [tags |-> <<"a:xfrm">>, successors |-> From(CT_ShapeProperties_tag_seq, 1)]

CT_ShapeProperties_custGeom ==
    [tags |-> <<"a:custGeom">>, successors |-> From(CT_ShapeProperties_tag_seq, 2)]

CT_ShapeProperties_prstGeom ==
    [tags |-> <<"a:prstGeom">>, successors |-> From(CT_ShapeProperties_tag_seq, 3)]

CT_ShapeProperties_eg_fillProperties ==
    [tags |-> <<"a:noFill", "a:solidFill", "a:gradFill", "a:blipFill",
                "a:pattFill", "a:grpFill">>,
     successors |-> From(CT_ShapeProperties_tag_seq, 9)]

CT_ShapeProperties_ln ==
    [tags |-> <<"a:ln">>, successors |-> From(CT_ShapeProperties_tag_seq, 10)]

CT_ShapeProperties_effectLst ==
    [tags |-> <<"a:effectLst">>, successors |-> From(CT_ShapeProperties_tag_seq, 11)]

CT_Transform2D_tag_seq == << "a:off", "a:ext", "a:chOff", "a:chExt" >>

\* Mutant: a:off declared with the successors of a:ext (_tag_seq[2:]).
CT_Transform2D_off_successors_shifted ==
    [tags |-> <<"a:off">>, successors |-> From(CT_Transform2D_tag_seq, 2)]

CT_Transform2D_off ==
    [tags |-> <<"a:off">>, successors |-> From(CT_Transform2D_tag_seq, 1)]

CT_Transform2D_ext ==
    [tags |-> <<"a:ext">>, successors |-> From(CT_Transform2D_tag_seq, 2)]

CT_Transform2D_chOff ==
    [tags |-> <<"a:chOff">>, successors |-> From(CT_Transform2D_tag_seq, 3)]

CT_Transform2D_chExt ==
    [tags |-> <<"a:chExt">>, successors |-> From(CT_Transform2D_tag_seq, 4)]

CT_LineProperties_tag_seq ==
    << "a:noFill", "a:solidFill", "a:gradFill", "a:pattFill", "a:prstDash",
       "a:custDash", "a:round", "a:bevel", "a:miter", "a:headEnd",
       "a:tailEnd", "a:extLst" >>

CT_LineProperties_eg_lineFillProperties ==
    [tags |-> <<"a:noFill", "a:solidFill", "a:gradFill", "a:pattFill">>,
     successors |-> From(CT_LineProperties_tag_seq, 4)]

CT_LineProperties_prstDash ==
    [tags |-> <<"a:prstDash">>, successors |-> From(CT_LineProperties_tag_seq, 5)]

CT_LineProperties_custDash ==
    [tags |-> <<"a:custDash">>, successors |-> From(CT_LineProperties_tag_seq, 6)]

CT_NonVisualDrawingProps_tag_seq == << "a:hlinkClick", "a:hlinkHover", "a:extLst" >>

CT_NonVisualDrawingProps_hlinkClick ==
    [tags |-> <<"a:hlinkClick">>,
     successors |-> From(CT_NonVisualDrawingProps_tag_seq, 1)]

CT_NonVisualDrawingProps_hlinkHover ==
    [tags |-> <<"a:hlinkHover">>,
     successors |-> From(CT_NonVisualDrawingProps_tag_seq, 2)]

CT_ApplicationNonVisualDrawingProps_ph ==
    [tags |-> <<"p:ph">>,
     successors |-> << "a:audioCd", "a:wavAudioFile", "a:audioFile", "a:videoFile",
                       "a:quickTimeFile", "p:custDataLst", "p:extLst" >>]

\* The schema sequence of p:nvPr as its one slot declares it.
CT_ApplicationNonVisualDrawingProps_tag_seq ==
    CT_ApplicationNonVisualDrawingProps_ph.tags
        \o CT_ApplicationNonVisualDrawingProps_ph.successors

\* The element classes that declare child slots, by tag.
SlotClasses == {"p:spPr", "a:xfrm", "a:ln", "p:cNvPr", "p:nvPr"}

TagSeq(cls) ==
    CASE cls = "p:spPr"  -> CT_ShapeProperties_tag_seq
      [] cls = "a:xfrm"  -> CT_Transform2D_tag_seq
      [] cls = "a:ln"    -> CT_LineProperties_tag_seq
      [] cls = "p:cNvPr" -> CT_NonVisualDrawingProps_tag_seq
      [] cls = "p:nvPr"  -> CT_ApplicationNonVisualDrawingProps_tag_seq
      [] OTHER           -> << >>

\* Mutant: the fill candidates declared as six independent zero-or-one slots
\* instead of one choice group.
CT_ShapeProperties_slots_fills_separate ==
    { CT_ShapeProperties_xfrm, CT_ShapeProperties_custGeom, CT_ShapeProperties_prstGeom,
      CT_ShapeProperties_ln, CT_ShapeProperties_effectLst }
    \cup { [tags |-> << CT_ShapeProperties_eg_fillProperties.tags[i] >>,
            successors |-> CT_ShapeProperties_eg_fillProperties.successors]
           : i \in 1..Len(CT_ShapeProperties_eg_fillProperties.tags) }

\* The child slots each class declares.
CT_ShapeProperties_slots ==
    { CT_ShapeProperties_xfrm, CT_ShapeProperties_custGeom, CT_ShapeProperties_prstGeom,
      CT_ShapeProperties_eg_fillProperties, CT_ShapeProperties_ln,
      CT_ShapeProperties_effectLst }

CT_Transform2D_slots ==
    { CT_Transform2D_off, CT_Transform2D_ext, CT_Transform2D_chOff, CT_Transform2D_chExt }

CT_LineProperties_slots ==
    { CT_LineProperties_eg_lineFillProperties, CT_LineProperties_prstDash,
      CT_LineProperties_custDash }

CT_NonVisualDrawingProps_slots ==
    { CT_NonVisualDrawingProps_hlinkClick, CT_NonVisualDrawingProps_hlinkHover }

CT_ApplicationNonVisualDrawingProps_slots == { CT_ApplicationNonVisualDrawingProps_ph }

Slots(cls) ==
    CASE cls = "p:spPr"  -> CT_ShapeProperties_slots
      [] cls = "a:xfrm"  -> CT_Transform2D_slots
      [] cls = "a:ln"    -> CT_LineProperties_slots
      [] cls = "p:cNvPr" -> CT_NonVisualDrawingProps_slots
      [] cls = "p:nvPr"  -> CT_ApplicationNonVisualDrawingProps_slots
      [] OTHER           -> {}


(***************************************************************************)
(* Values returned to the caller.                                          *)
(***************************************************************************)
None     == [kind |-> "None"]
IntV(n)  == [kind |-> "int", val |-> n]
BoolV(b) == [kind |-> "bool", val |-> b]
EnumV(m) == [kind |-> "enum", val |-> m]
ElemV(e) == [kind |-> "elem", val |-> e]
Raise(x) == [kind |-> "raise", val |-> x]

IsNone(r) == r.kind = "None"
Raised(r) == r.kind = "raise"

(***************************************************************************)
(* Value codecs (pptx/oxml/simpletypes.py, pptx/enum): a number is written *)
(* as its decimal numeral, a boolean as "1"/"0", an angle as 60000ths of a *)
(* degree, an enumeration member as its XML token.                         *)
(***************************************************************************)
DigitChars == << "0", "1", "2", "3", "4", "5", "6", "7", "8", "9" >>

RECURSIVE NatToStr(_)
NatToStr(n) ==
    IF n < 10 THEN << DigitChars[n + 1] >>
    ELSE Append(NatToStr(n \div 10), DigitChars[(n % 10) + 1])

IntToStr(n) == IF n < 0 THEN << "-" >> \o NatToStr(-n) ELSE NatToStr(n)

DigitVal(c) == (CHOOSE i \in 1..10 : DigitChars[i] = c) - 1

RECURSIVE StrToNat(_)
StrToNat(s) ==
    IF Len(s) = 0 THEN 0
    ELSE 10 * StrToNat(SubSeq(s, 1, Len(s) - 1)) + DigitVal(s[Len(s)])

StrToInt(s) == IF s[1] = "-" THEN -StrToNat(Tail(s)) ELSE StrToNat(s)

\* ST_Coordinate, ST_PositiveCoordinate, XsdUnsignedInt
BaseIntType_convert_to_xml(v)   == IntToStr(v)
BaseIntType_convert_from_xml(s) == IntV(StrToInt(s))

\* XsdBoolean
XsdBoolean_convert_to_xml(b)   == IF b THEN "1" ELSE "0"
XsdBoolean_convert_from_xml(s) == BoolV(s \in {"1", "true"})

\* ST_Angle: the value is in degrees, the attribute in 60000ths of a degree.
DEGREE_INCREMENTS == 60000
THREE_SIXTY == 360 * DEGREE_INCREMENTS
ST_Angle_convert_to_xml(deg) == IntToStr((deg * DEGREE_INCREMENTS) % THREE_SIXTY)
ST_Angle_convert_from_xml(s) ==
    IntV((StrToInt(s) % THREE_SIXTY) \div DEGREE_INCREMENTS)

\* Enumerations: member name -> XML token.
EnumXml ==
    [ TITLE |-> "title", BODY |-> "body", OBJECT |-> "obj",
      HORZ |-> "horz", VERT |-> "vert",
      FULL |-> "full", HALF |-> "half", QUARTER |-> "quarter",
      DASH |-> "dash", SOLID |-> "solid", ROUND_DOT |-> "sysDot" ]

Enum_convert_to_xml(m)   == EnumXml[m]
Enum_convert_from_xml(s) == EnumV(CHOOSE m \in DOMAIN EnumXml : EnumXml[m] = s)

IntCodecs  == {"ST_Coordinate", "ST_PositiveCoordinate", "XsdUnsignedInt"}
EnumCodecs == {"PP_PLACEHOLDER", "ST_Direction", "ST_PlaceholderSize",
               "MSO_LINE_DASH_STYLE"}

convert_to_xml(codec, v) ==
    CASE codec \in IntCodecs   -> BaseIntType_convert_to_xml(v)
      [] codec = "XsdBoolean"  -> XsdBoolean_convert_to_xml(v)
      [] codec = "ST_Angle"    -> ST_Angle_convert_to_xml(v)
      [] codec \in EnumCodecs  -> Enum_convert_to_xml(v)

convert_from_xml(codec, s) ==
    CASE codec \in IntCodecs   -> BaseIntType_convert_from_xml(s)
      [] codec = "XsdBoolean"  -> XsdBoolean_convert_from_xml(s)
      [] codec = "ST_Angle"    -> ST_Angle_convert_from_xml(s)
      [] codec \in EnumCodecs  -> Enum_convert_from_xml(s)

(***************************************************************************)
(* Attribute maps and the attribute accessors (design document 4.1).       *)
(***************************************************************************)
NoAttrs == [n \in {} |-> << >>]

SetAttr(a, n, s) == [m \in (DOMAIN a) \cup {n} |-> IF m = n THEN s ELSE a[m]]
DelAttr(a, n)    == [m \in (DOMAIN a) \ {n} |-> a[m]]

\* get(): absent and required fails with SchemaViolation.
RequiredAttribute_get(a, n, codec) ==
    IF n \in DOMAIN a THEN convert_from_xml(codec, a[n]) ELSE Raise("SchemaViolation")

RequiredAttribute_set(a, n, codec, value) == SetAttr(a, n, convert_to_xml(codec, value))

\* get(): absent and optional yields the declared default.
OptionalAttribute_get(a, n, codec, default) ==
    IF n \in DOMAIN a THEN convert_from_xml(codec, a[n]) ELSE default

\* set(): writes the encoded string, creating the attribute if absent; a
\* boolean flag whose default is false is stored as false by removing the
\* attribute.
OptionalAttribute_set(a, n, codec, value, default) ==
    IF codec = "XsdBoolean" /\ ~IsNone(default) /\ default.val = FALSE
          /\ value = FALSE
    THEN DelAttr(a, n)
    ELSE SetAttr(a, n, convert_to_xml(codec, value))

(***************************************************************************)
(* Child presence descriptors (design document 4.2, 4.3) over a document   *)
(* d = [kids, attrs, made].  Every operation returns [doc, ret].           *)
(***************************************************************************)
Result(d, r) == [doc |-> d, ret |-> r]

SetIfIn(f, k, v) == IF k \in DOMAIN f THEN [f EXCEPT ![k] = v] ELSE f

Min(S) == CHOOSE i \in S : \A j \in S : i <= j

IndicesOf(ch, tags) == {i \in 1..Len(ch) : ch[i].tag \in tags}

\* first direct child whose tag is one of tags, or None
first_child_found_in(ch, tags) ==
    IF IndicesOf(ch, tags) = {} THEN None
    ELSE ElemV(ch[Min(IndicesOf(ch, tags))])

InsertAt(ch, i, elm) == SubSeq(ch, 1, i - 1) \o << elm >> \o SubSeq(ch, i, Len(ch))

\* The ordering algorithm: immediately before the first existing child whose
\* tag is a successor, at the end if there is none.
insert_element_before(ch, elm, successors) ==
    IF IndicesOf(ch, Range(successors)) = {} THEN Append(ch, elm)
    ELSE InsertAt(ch, Min(IndicesOf(ch, Range(successors))), elm)

\* A new element of this tag under parent, with the attributes its
\* constructor gave it, inserted for slot.
Slot_add(d, parent, slot, tag, new) ==
    LET elm == [tag |-> tag, gen |-> d.made[parent][tag] + 1]
        ch  == insert_element_before(d.kids[parent], elm, slot.successors)
    IN  Result([kids  |-> SetIfIn([d.kids EXCEPT ![parent] = ch], tag, << >>),
                attrs |-> SetIfIn(d.attrs, tag, new),
                made  |-> [d.made EXCEPT ![parent][tag] = @ + 1]],
               ElemV(elm))

\* get(): the occupant or None; no transition.
Slot_get(d, parent, tag) == Result(d, first_child_found_in(d.kids[parent], {tag}))

\* get_or_add(): Present -> the occupant of the slot (for a choice slot the
\* candidate already present, whichever it is); Absent -> a new element.
Slot_get_or_add(d, parent, slot, tag, new) ==
    IF IsNone(first_child_found_in(d.kids[parent], Range(slot.tags)))
    THEN Slot_add(d, parent, slot, tag, new)
    ELSE Result(d, first_child_found_in(d.kids[parent], Range(slot.tags)))

SelectSeq2(ch, tag) == SelectSeq(ch, LAMBDA c : c.tag # tag)

\* remove(): detach and discard every child of this tag, with its subtree.
Slot_remove(d, parent, tag) ==
    Result([kids  |-> SetIfIn([d.kids EXCEPT ![parent] = SelectSeq2(@, tag)],
                              tag, << >>),
            attrs |-> SetIfIn(d.attrs, tag, NoAttrs),
            made  |-> d.made],
           None)

(***************************************************************************)
(* CT_Transform2D (a:xfrm), CT_Point2D (a:off), CT_PositiveSize2D (a:ext). *)
(***************************************************************************)
\* Mutant: _new_off() that sets x and leaves y unset.
CT_Transform2D_new_off_without_y ==
    RequiredAttribute_set(NoAttrs, "x", "ST_Coordinate", 0)

CT_Transform2D_new_off ==
    RequiredAttribute_set(RequiredAttribute_set(NoAttrs, "x", "ST_Coordinate", 0),
                          "y", "ST_Coordinate", 0)

CT_Transform2D_new_ext ==
    RequiredAttribute_set(RequiredAttribute_set(NoAttrs, "cx", "ST_PositiveCoordinate", 0),
                          "cy", "ST_PositiveCoordinate", 0)

\* What the class's _new_<child>() gives a new child element.
NewChildAttrs(cls, tag) ==
    CASE cls = "a:xfrm" /\ tag = "a:off" -> CT_Transform2D_new_off
      [] cls = "a:xfrm" /\ tag = "a:ext" -> CT_Transform2D_new_ext
      [] OTHER                           -> NoAttrs

CT_Point2D_get(d, n) ==
    RequiredAttribute_get(d.attrs["a:off"], n, "ST_Coordinate")

CT_PositiveSize2D_get(d, n) ==
    RequiredAttribute_get(d.attrs["a:ext"], n, "ST_PositiveCoordinate")

\* x, y getters: off = self.off; None if off is None; else off.<n>
CT_Transform2D_get_off_attr(d, n) ==
    IF IsNone(Slot_get(d, "a:xfrm", "a:off").ret) THEN Result(d, None)
    ELSE Result(d, CT_Point2D_get(d, n))

\* cx, cy getters: ext = self.ext; None if ext is None; else ext.<n>
CT_Transform2D_get_ext_attr(d, n) ==
    IF IsNone(Slot_get(d, "a:xfrm", "a:ext").ret) THEN Result(d, None)
    ELSE Result(d, CT_PositiveSize2D_get(d, n))

CT_Transform2D_get_or_add_off(d) ==
    Slot_get_or_add(d, "a:xfrm", CT_Transform2D_off, "a:off",
                    NewChildAttrs("a:xfrm", "a:off"))

CT_Transform2D_get_or_add_ext(d) ==
    Slot_get_or_add(d, "a:xfrm", CT_Transform2D_ext, "a:ext",
                    NewChildAttrs("a:xfrm", "a:ext"))

\* Mutant: the x, y setters also materialize a:ext.
CT_Transform2D_set_off_attr_adds_ext(d, n, value) ==
    LET r == CT_Transform2D_get_or_add_off(CT_Transform2D_get_or_add_ext(d).doc)
    IN  Result([r.doc EXCEPT !.attrs["a:off"] =
                    RequiredAttribute_set(@, n, "ST_Coordinate", value)],
               None)

\* x, y setters: off = self.get_or_add_off(); off.<n> = value
CT_Transform2D_set_off_attr(d, n, value) ==
    LET r == CT_Transform2D_get_or_add_off(d)
    IN  Result([r.doc EXCEPT !.attrs["a:off"] =
                    RequiredAttribute_set(@, n, "ST_Coordinate", value)],
               None)

\* cx, cy setters: ext = self.get_or_add_ext(); ext.<n> = value
CT_Transform2D_set_ext_attr(d, n, value) ==
    LET r == CT_Transform2D_get_or_add_ext(d)
    IN  Result([r.doc EXCEPT !.attrs["a:ext"] =
                    RequiredAttribute_set(@, n, "ST_PositiveCoordinate", value)],
               None)

\* rot = OptionalAttribute("rot", ST_Angle, default=0.0)
CT_Transform2D_rot(d) ==
    Result(d, OptionalAttribute_get(d.attrs["a:xfrm"], "rot", "ST_Angle", IntV(0)))

CT_Transform2D_set_rot(d, value) ==
    Result([d EXCEPT !.attrs["a:xfrm"] =
                OptionalAttribute_set(@, "rot", "ST_Angle", value, IntV(0))],
           None)

\* flipH, flipV = OptionalAttribute(<n>, XsdBoolean, default=False)
CT_Transform2D_flip(d, n) ==
    Result(d, OptionalAttribute_get(d.attrs["a:xfrm"], n, "XsdBoolean", BoolV(FALSE)))

CT_Transform2D_set_flip(d, n, value) ==
    Result([d EXCEPT !.attrs["a:xfrm"] =
                OptionalAttribute_set(@, n, "XsdBoolean", value, BoolV(FALSE))],
           None)

\* getattr(xfrm, name)
CT_Transform2D_getattr(d, name) ==
    CASE name \in {"x", "y"}         -> CT_Transform2D_get_off_attr(d, name)
      [] name \in {"cx", "cy"}       -> CT_Transform2D_get_ext_attr(d, name)
      [] name \in {"flipH", "flipV"} -> CT_Transform2D_flip(d, name)
      [] name = "rot"                -> CT_Transform2D_rot(d)

\* setattr(xfrm, name, value)
CT_Transform2D_setattr(d, name, value) ==
    CASE name \in {"x", "y"}         -> CT_Transform2D_set_off_attr(d, name, value)
      [] name \in {"cx", "cy"}       -> CT_Transform2D_set_ext_attr(d, name, value)
      [] name \in {"flipH", "flipV"} -> CT_Transform2D_set_flip(d, name, value)
      [] name = "rot"                -> CT_Transform2D_set_rot(d, value)

(***************************************************************************)
(* BaseShapeElement (p:sp, p:cxnSp, p:pic): the geometry facade.           *)
(***************************************************************************)
\* self.spPr.xfrm
BaseShapeElement_xfrm(d) == Slot_get(d, "p:spPr", "a:xfrm")

\* Mutant: get_or_add_xfrm() that always adds (self.spPr._add_xfrm()).
BaseShapeElement_get_or_add_xfrm_always_adds(d) ==
    Slot_add(d, "p:spPr", CT_ShapeProperties_xfrm, "a:xfrm",
             NewChildAttrs("p:spPr", "a:xfrm"))

\* self.spPr.get_or_add_xfrm()
BaseShapeElement_get_or_add_xfrm(d) ==
    Slot_get_or_add(d, "p:spPr", CT_ShapeProperties_xfrm, "a:xfrm",
                    NewChildAttrs("p:spPr", "a:xfrm"))

\* Mutant: _get_xfrm_attr() that answers 0 when there is no a:xfrm.
BaseShapeElement_get_xfrm_attr_zero_default(d, name) ==
    LET r == BaseShapeElement_xfrm(d)
    IN  IF IsNone(r.ret) THEN Result(r.doc, IntV(0))
        ELSE CT_Transform2D_getattr(r.doc, name)

\* Mutant: _get_xfrm_attr() that reads through get_or_add_xfrm().
BaseShapeElement_get_xfrm_attr_materializes(d, name) ==
    CT_Transform2D_getattr(BaseShapeElement_get_or_add_xfrm(d).doc, name)

BaseShapeElement_get_xfrm_attr(d, name) ==
    LET r == BaseShapeElement_xfrm(d)
    IN  IF IsNone(r.ret) THEN Result(r.doc, None)
        ELSE CT_Transform2D_getattr(r.doc, name)

\* Mutant: _set_xfrm_attr() that writes through self.xfrm and does nothing
\* when there is no a:xfrm.
BaseShapeElement_set_xfrm_attr_no_add(d, name, value) ==
    IF IsNone(BaseShapeElement_xfrm(d).ret) THEN Result(d, None)
    ELSE CT_Transform2D_setattr(d, name, value)

BaseShapeElement_set_xfrm_attr(d, name, value) ==
    CT_Transform2D_setattr(BaseShapeElement_get_or_add_xfrm(d).doc, name, value)

\* Python's bool() of an accessor result: bool(None) is False.
Py_bool(r) == IF IsNone(r) THEN BoolV(FALSE) ELSE r

BaseShapeElement_flip(d, name) ==
    LET r == BaseShapeElement_get_xfrm_attr(d, name)
    IN  Result(r.doc, Py_bool(r.ret))

\* rot getter: 0.0 if xfrm is None or xfrm.rot is None, else xfrm.rot
BaseShapeElement_rot(d) ==
    LET r == BaseShapeElement_xfrm(d)
    IN  IF IsNone(r.ret) \/ IsNone(CT_Transform2D_rot(r.doc).ret)
        THEN Result(r.doc, IntV(0))
        ELSE CT_Transform2D_rot(r.doc)

\* rot setter: self.get_or_add_xfrm().rot = value
BaseShapeElement_set_rot(d, value) ==
    CT_Transform2D_set_rot(BaseShapeElement_get_or_add_xfrm(d).doc, value)

(***************************************************************************)
(* BaseShapeElement: the placeholder resolver, and CT_Placeholder (p:ph).  *)
(***************************************************************************)
KidsOf(d, tag) == IF tag \in DOMAIN d.kids THEN d.kids[tag] ELSE << >>

\* self.xpath("./*[1]/p:nvPr/p:ph")
XPath_ph(d, self) ==
    IF Len(d.kids[self]) = 0 THEN << >>
    ELSE IF IndicesOf(KidsOf(d, d.kids[self][1].tag), {"p:nvPr"}) = {} THEN << >>
    ELSE SelectSeq(d.kids["p:nvPr"], LAMBDA c : c.tag = "p:ph")

BaseShapeElement_ph(d, self) ==
    IF Len(XPath_ph(d, self)) = 0 THEN Result(d, None)
    ELSE Result(d, ElemV(XPath_ph(d, self)[1]))

BaseShapeElement_has_ph_elm(d, self) ==
    Result(BaseShapeElement_ph(d, self).doc,
           BoolV(~IsNone(BaseShapeElement_ph(d, self).ret)))

\* type / orient / sz / idx = OptionalAttribute(<n>, <codec>, default=...)
CT_Placeholder_get(d, n) ==
    CASE n = "type"   -> OptionalAttribute_get(d.attrs["p:ph"], n, "PP_PLACEHOLDER",
                                               EnumV("OBJECT"))
      [] n = "orient" -> OptionalAttribute_get(d.attrs["p:ph"], n, "ST_Direction",
                                               EnumV("HORZ"))
      [] n = "sz"     -> OptionalAttribute_get(d.attrs["p:ph"], n, "ST_PlaceholderSize",
                                               EnumV("FULL"))
      [] n = "idx"    -> OptionalAttribute_get(d.attrs["p:ph"], n, "XsdUnsignedInt",
                                               IntV(0))

\* Mutant: a typed accessor without the "ph is None" check.
BaseShapeElement_ph_attr_unchecked(d, self, n) ==
    Result(d, CT_Placeholder_get(d, n))

\* ph_idx, ph_orient, ph_sz, ph_type
BaseShapeElement_ph_attr(d, self, n) ==
    LET r == BaseShapeElement_ph(d, self)
    IN  IF IsNone(r.ret) THEN Result(r.doc, Raise("ValueError: not a placeholder shape"))
        ELSE Result(r.doc, CT_Placeholder_get(r.doc, n))

(***************************************************************************)
(* CT_LineProperties (a:ln): the preset-dash value.                        *)
(***************************************************************************)
\* a:prstDash val = OptionalAttribute("val", MSO_LINE_DASH_STYLE)
CT_PresetLineDashProperties_val(d) ==
    OptionalAttribute_get(d.attrs["a:prstDash"], "val", "MSO_LINE_DASH_STYLE", None)

CT_LineProperties_prstDash_val(d) ==
    IF IsNone(Slot_get(d, "a:ln", "a:prstDash").ret) THEN Result(d, None)
    ELSE Result(d, CT_PresetLineDashProperties_val(d))

CT_LineProperties_remove_custDash(d) == Slot_remove(d, "a:ln", "a:custDash").doc

CT_LineProperties_get_or_add_prstDash(d) ==
    Slot_get_or_add(d, "a:ln", CT_LineProperties_prstDash, "a:prstDash",
                    NewChildAttrs("a:ln", "a:prstDash"))

\* Mutant: the setter without self._remove_custDash().
CT_LineProperties_set_prstDash_val_keeps_custDash(d, val) ==
    LET d2 == CT_LineProperties_get_or_add_prstDash(d).doc
    IN  Result([d2 EXCEPT !.attrs["a:prstDash"] =
                    OptionalAttribute_set(@, "val", "MSO_LINE_DASH_STYLE", val, None)],
               None)

\* self._remove_custDash(); prstDash = self.get_or_add_prstDash(); prstDash.val = val
CT_LineProperties_set_prstDash_val(d, val) ==
    LET d1 == CT_LineProperties_remove_custDash(d)
        d2 == CT_LineProperties_get_or_add_prstDash(d1).doc
    IN  Result([d2 EXCEPT !.attrs["a:prstDash"] =
                    OptionalAttribute_set(@, "val", "MSO_LINE_DASH_STYLE", val, None)],
               None)

(***************************************************************************)
(* Documents the model starts from.                                        *)
(***************************************************************************)
Containers == {"p:sp", "p:nvSpPr", "p:cNvPr", "p:nvPr", "p:spPr", "a:xfrm", "a:ln"}
AttrElems  == {"a:xfrm", "a:off", "a:ext", "p:ph", "a:prstDash"}

SlotTags(cls) == UNION {Range(s.tags) : s \in Slots(cls)}

Parsed(tags) == [i \in 1..Len(tags) |-> [tag |-> tags[i], gen |-> 0]]

EmptyKids  == [e \in Containers |-> << >>]
EmptyAttrs == [e \in AttrElems |-> NoAttrs]

\* Values callers write.
CoordValues == {-5, 100}
SizeValues  == {7}
RotValues   == {0, 90}
DashValues  == {"DASH", "ROUND_DOT"}

\* Child lists a parsed element of each slot-declaring class may arrive with
\* (each in schema order, the empty element among them).
InitialChildren(cls) ==
    CASE cls = "p:spPr"  -> { << >>, <<"a:prstGeom", "a:extLst">>,
                              <<"a:custGeom", "a:pattFill", "a:effectDag", "a:sp3d">> }
      [] cls = "a:xfrm"  -> { << >>, <<"a:chOff">> }
      [] cls = "a:ln"    -> { << >>, <<"a:custDash">>,
                              <<"a:solidFill", "a:custDash", "a:round", "a:headEnd">>,
                              <<"a:noFill", "a:prstDash", "a:miter", "a:tailEnd",
                                "a:extLst">> }
      [] cls = "p:cNvPr" -> { << >>, <<"a:extLst">> }
      [] cls = "p:nvPr"  -> { << >>, <<"a:audioFile", "p:extLst">> }

ElementDocs ==
    { [root  |-> cls,
       kids  |-> [EmptyKids EXCEPT ![cls] = Parsed(ch)],
       attrs |-> [EmptyAttrs EXCEPT !["a:prstDash"] =
                     IF "a:prstDash" \in Range(ch)
                     THEN SetAttr(NoAttrs, "val", "solid") ELSE NoAttrs]]
      : <<cls, ch>> \in UNION {{<<c, x>> : x \in InitialChildren(c)} : c \in SlotClasses} }

\* p:sp documents: <p:sp><p:nvSpPr>..</p:nvSpPr><p:spPr>..</p:spPr></p:sp>
SpKids(nvPr, spPr, xfrm) ==
    [EmptyKids EXCEPT
        !["p:sp"]     = Parsed(<<"p:nvSpPr", "p:spPr", "p:txBody">>),
        !["p:nvSpPr"] = Parsed(<<"p:cNvPr", "p:cNvSpPr", "p:nvPr">>),
        !["p:nvPr"]   = Parsed(nvPr),
        !["p:spPr"]   = Parsed(spPr),
        !["a:xfrm"]   = Parsed(xfrm)]

Attrs2(n1, s1, n2, s2) == SetAttr(SetAttr(NoAttrs, n1, s1), n2, s2)

\* an autoshape with an empty p:spPr and no placeholder marker
SpBare == [root |-> "p:sp", kids |-> SpKids(<< >>, << >>, << >>), attrs |-> EmptyAttrs]

\* a placeholder that inherits everything: <p:ph/> and an empty p:spPr
SpPlaceholder ==
    [root |-> "p:sp", kids |-> SpKids(<<"p:ph">>, << >>, << >>), attrs |-> EmptyAttrs]

\* a vertical half-size title placeholder with its own position and size
SpTitle ==
    [root  |-> "p:sp",
     kids  |-> SpKids(<<"p:ph">>, <<"a:xfrm", "a:prstGeom">>, <<"a:off", "a:ext">>),
     attrs |-> [EmptyAttrs EXCEPT
                  !["p:ph"]  = SetAttr(SetAttr(Attrs2("type", "title", "idx", <<"1", "0">>),
                                               "orient", "vert"), "sz", "half"),
                  !["a:off"] = Attrs2("x", <<"-", "5">>, "y", <<"1", "2">>),
                  !["a:ext"] = Attrs2("cx", <<"7">>, "cy", <<"3", "0">>)]]

\* a rotated, flipped shape whose a:xfrm has no a:off and no a:ext
SpXfrmOnly ==
    [root  |-> "p:sp",
     kids  |-> SpKids(<< >>, <<"a:xfrm", "a:prstGeom", "a:solidFill", "a:ln">>, << >>),
     attrs |-> [EmptyAttrs EXCEPT
                  !["a:xfrm"] = Attrs2("rot", <<"5", "4", "0", "0", "0", "0", "0">>,
                                       "flipH", "true")]]

\* a malformed document: a:off lacks y, a:ext lacks cx
SpMalformed ==
    [root  |-> "p:sp",
     kids  |-> SpKids(<<"p:ph">>, <<"a:xfrm">>, <<"a:off", "a:ext">>),
     attrs |-> [EmptyAttrs EXCEPT
                  !["p:ph"]  = SetAttr(NoAttrs, "type", "body"),
                  !["a:off"] = SetAttr(NoAttrs, "x", <<"1", "0", "0">>),
                  !["a:ext"] = SetAttr(NoAttrs, "cy", <<"7">>)]]

\* a document whose first child is not the non-visual block holding p:nvPr
SpNoNvPrFirst ==
    [root  |-> "p:sp",
     kids  |-> [SpKids(<<"p:ph">>, << >>, << >>) EXCEPT
                  !["p:sp"] = Parsed(<<"p:spPr", "p:nvSpPr">>)],
     attrs |-> EmptyAttrs]

ShapeDocs == {SpBare, SpPlaceholder, SpTitle, SpXfrmOnly, SpMalformed, SpNoNvPrFirst}

Doc == [kids |-> kids, attrs |-> attrs, made |-> made]

Init ==
    /\ \E doc \in ElementDocs \cup ShapeDocs :
          /\ root = doc.root
          /\ kids = doc.kids
          /\ attrs = doc.attrs
    /\ made = [e \in SlotClasses |-> [t \in SlotTags(e) |-> 0]]
    /\ last = [op |-> "parse", on |-> root, name |-> "", val |-> None, ret |-> None]

(***************************************************************************)
(* Calls.                                                                  *)
(***************************************************************************)
Present(e, tag) == IndicesOf(kids[e], {tag}) # {}

\* The call op(name, val) on element `on` ran to r = [doc, ret].
Call(op, on, name, val, r) ==
    /\ \A e \in DOMAIN r.doc.made :
          \A t \in DOMAIN r.doc.made[e] : r.doc.made[e][t] <= MaxGen
    /\ kids' = r.doc.kids
    /\ attrs' = r.doc.attrs
    /\ made' = r.doc.made
    /\ last' = [op |-> op, on |-> on, name |-> name, val |-> val, ret |-> r.ret]
    /\ UNCHANGED root

\* <slot> on an element: ZeroOrOne / Choice getter
Get ==
    /\ root \in SlotClasses
    /\ \E slot \in Slots(root) : \E tag \in Range(slot.tags) :
          Call("get", root, tag, None, Slot_get(Doc, root, tag))

\* get_or_add_<slot>() on an element
GetOrAdd ==
    /\ root \in SlotClasses
    /\ \E slot \in Slots(root) : \E tag \in Range(slot.tags) :
          Call("get_or_add", root, tag, None,
               Slot_get_or_add(Doc, root, slot, tag, NewChildAttrs(root, tag)))

\* shape.get_or_add_xfrm()
GetOrAddXfrm ==
    /\ root = "p:sp"
    /\ Call("get_or_add", "p:spPr", "a:xfrm", None, BaseShapeElement_get_or_add_xfrm(Doc))

\* shape.xfrm.get_or_add_off(), shape.xfrm.get_or_add_ext()
XfrmGetOrAdd ==
    /\ root = "p:sp"
    /\ Present("p:spPr", "a:xfrm")
    /\ \/ Call("get_or_add", "a:xfrm", "a:off", None, CT_Transform2D_get_or_add_off(Doc))
       \/ Call("get_or_add", "a:xfrm", "a:ext", None, CT_Transform2D_get_or_add_ext(Doc))

\* shape.xfrm
ReadXfrm ==
    /\ root = "p:sp"
    /\ Call("read", "p:sp", "xfrm", None, BaseShapeElement_xfrm(Doc))

\* shape.x, shape.y, shape.cx, shape.cy
ReadXfrmAttr ==
    /\ root = "p:sp"
    /\ \E name \in {"x", "y", "cx", "cy"} :
          Call("read", "p:sp", name, None, BaseShapeElement_get_xfrm_attr(Doc, name))

\* shape.flipH, shape.flipV
ReadFlip ==
    /\ root = "p:sp"
    /\ \E name \in {"flipH", "flipV"} :
          Call("read", "p:sp", name, None, BaseShapeElement_flip(Doc, name))

\* shape.rot
ReadRot ==
    /\ root = "p:sp"
    /\ Call("read", "p:sp", "rot", None, BaseShapeElement_rot(Doc))

\* shape.x = v, shape.y = v
WriteOffAttr ==
    /\ root = "p:sp"
    /\ \E name \in {"x", "y"} : \E v \in CoordValues :
          Call("write", "p:sp", name, IntV(v),
               BaseShapeElement_set_xfrm_attr(Doc, name, v))

\* shape.cx = v, shape.cy = v
WriteExtAttr ==
    /\ root = "p:sp"
    /\ \E name \in {"cx", "cy"} : \E v \in SizeValues :
          Call("write", "p:sp", name, IntV(v),
               BaseShapeElement_set_xfrm_attr(Doc, name, v))

\* shape.flipH = b, shape.flipV = b
WriteFlip ==
    /\ root = "p:sp"
    /\ \E name \in {"flipH", "flipV"} : \E b \in BOOLEAN :
          Call("write", "p:sp", name, BoolV(b),
               BaseShapeElement_set_xfrm_attr(Doc, name, b))

\* shape.rot = v
WriteRot ==
    /\ root = "p:sp"
    /\ \E v \in RotValues :
          Call("write", "p:sp", "rot", IntV(v), BaseShapeElement_set_rot(Doc, v))

\* shape.ph
ReadPh ==
    /\ root = "p:sp"
    /\ Call("read", "p:sp", "ph", None, BaseShapeElement_ph(Doc, root))

\* shape.has_ph_elm
ReadHasPhElm ==
    /\ root = "p:sp"
    /\ Call("read", "p:sp", "has_ph_elm", None, BaseShapeElement_has_ph_elm(Doc, root))

\* shape.ph_type, shape.ph_orient, shape.ph_sz, shape.ph_idx
ReadPhAttr ==
    /\ root = "p:sp"
    /\ \E n \in {"type", "orient", "sz", "idx"} :
          Call("read", "p:sp", n, None, BaseShapeElement_ph_attr(Doc, root, n))

\* ln.prstDash_val
ReadPrstDashVal ==
    /\ root = "a:ln"
    /\ Call("read", "a:ln", "prstDash_val", None, CT_LineProperties_prstDash_val(Doc))

\* ln.prstDash_val = v
WritePrstDashVal ==
    /\ root = "a:ln"
    /\ \E v \in DashValues :
          Call("write", "a:ln", "prstDash_val", EnumV(v),
               CT_LineProperties_set_prstDash_val(Doc, v))

Next ==
    \/ Get
    \/ GetOrAdd
    \/ GetOrAddXfrm
    \/ XfrmGetOrAdd
    \/ ReadXfrm
    \/ ReadXfrmAttr
    \/ ReadFlip
    \/ ReadRot
    \/ WriteOffAttr
    \/ WriteExtAttr
    \/ WriteFlip
    \/ WriteRot
    \/ ReadPh
    \/ ReadHasPhElm
    \/ ReadPhAttr
    \/ ReadPrstDashVal
    \/ WritePrstDashVal

Spec == Init /\ [][Next]_vars

(***************************************************************************)
(* Properties.                                                             *)
(***************************************************************************)
IsInt(r, n)  == r.kind = "int" /\ r.val = n
IsBool(r, b) == r.kind = "bool" /\ r.val = b
IsEnum(r, m) == r.kind = "enum" /\ r.val = m
IsElem(r, e) == r.kind = "elem" /\ r.val = e

Count(e, tags) == Cardinality(IndicesOf(kids[e], tags))

PosIn(seq, t) == Min({i \in 1..Len(seq) : seq[i] = t})

SlotOf(e, tag) == CHOOSE s \in Slots(e) : tag \in Range(s.tags)

SchemaOrdered(cls) ==
    \A i, j \in 1..Len(kids[cls]) :
        i < j => PosIn(TagSeq(cls), kids[cls][i].tag) <= PosIn(TagSeq(cls), kids[cls][j].tag)

AllSchemaOrdered == \A cls \in SlotClasses : SchemaOrdered(cls)

\* A get_or_add step that added a child put it immediately before the first
\* child whose tag is a successor of the slot, or at the end.
PlacedBeforeFirstSuccessor ==
    (last'.op = "get_or_add" /\ kids'[last'.on] # kids[last'.on]) =>
        LET e    == last'.on
            succ == Range(SlotOf(e, last'.name).successors)
        IN  \E k \in 1..(Len(kids[e]) + 1) :
                /\ kids'[e] = InsertAt(kids[e], k, last'.ret.val)
                /\ \A i \in 1..(k - 1) : kids[e][i].tag \notin succ
                /\ k <= Len(kids[e]) => kids[e][k].tag \in succ

\* C1: in every reachable state the children of p:spPr, a:xfrm, a:ln, p:cNvPr
\* and p:nvPr appear in the relative order of the class's declared tag
\* sequence, and every get_or_add that adds a child places it immediately
\* before the first existing child whose tag is in the slot's successor list,
\* or at the end if there is none.
C1_OrderingInvariant == []AllSchemaOrdered /\ [][PlacedBeforeFirstSuccessor]_vars

\* C1 witness: a p:spPr that was parsed empty and now holds a child in each of
\* its six slots, every one created by get_or_add.
C1_Witness ==
    /\ root = "p:spPr"
    /\ last.op = "get_or_add"
    /\ Len(kids["p:spPr"]) = 6
    /\ \A i \in 1..6 : kids["p:spPr"][i].gen = 1

ChoiceSlots ==
    { <<"p:spPr", CT_ShapeProperties_eg_fillProperties>>,
      <<"a:ln", CT_LineProperties_eg_lineFillProperties>> }

AtMostOnePerChoice ==
    \A c \in ChoiceSlots : Count(c[1], Range(c[2].tags)) <= 1

\* get_or_add on a candidate while a candidate of the group is present
\* returns the present one and adds nothing.
KeepsPresentCandidate ==
    \A c \in ChoiceSlots :
        ( /\ last'.op = "get_or_add"
          /\ last'.on = c[1]
          /\ last'.name \in Range(c[2].tags)
          /\ Count(c[1], Range(c[2].tags)) >= 1 ) =>
            /\ last'.ret.kind = "elem"
            /\ last'.ret.val = kids[c[1]][Min(IndicesOf(kids[c[1]], Range(c[2].tags)))]
            /\ kids' = kids

\* C2: at most one child of a choice group's candidate set is present under
\* the parent in every reachable state, and get_or_add on a candidate, when a
\* candidate of the group is already present, returns the present one and
\* creates no second element.
C2_ChoiceExclusivity == []AtMostOnePerChoice /\ [][KeepsPresentCandidate]_vars

\* C2 witness: get_or_add of a:solidFill on a p:spPr that already held an
\* a:noFill created earlier returned that a:noFill.
C2_Witness ==
    /\ root = "p:spPr"
    /\ last.op = "get_or_add"
    /\ last.name = "a:solidFill"
    /\ IsElem(last.ret, [tag |-> "a:noFill", gen |-> 1])

SingleTag(e, tag) == Len(SlotOf(e, tag).tags) = 1

AtMostOnePerSlot ==
    \A e \in SlotClasses : \A s \in Slots(e) :
        Len(s.tags) = 1 => Count(e, Range(s.tags)) <= 1

ReturnsOccupant ==
    (last.op = "get_or_add" /\ SingleTag(last.on, last.name)) =>
        /\ last.ret.kind = "elem"
        /\ last.ret.val.tag = last.name
        /\ kids[last.on][Min(IndicesOf(kids[last.on], {last.name}))] = last.ret.val

SecondCallIsNoOp ==
    ( /\ last.op = "get_or_add"
      /\ last'.op = "get_or_add"
      /\ last'.on = last.on
      /\ last'.name = last.name
      /\ SingleTag(last.on, last.name) ) =>
        /\ last'.ret = last.ret
        /\ kids' = kids
        /\ attrs' = attrs

\* C3: every single-tag slot holds at most one child, get_or_add returns the
\* slot's occupant, and a get_or_add directly after a get_or_add on the same
\* slot returns the same element and leaves the tree unchanged.
C3_GetOrAddIdempotent ==
    [](AtMostOnePerSlot /\ ReturnsOccupant) /\ [][SecondCallIsNoOp]_vars

\* C3 witness: shape.get_or_add_xfrm() returned the a:xfrm it had created.
C3_Witness ==
    /\ root = "p:sp"
    /\ last.op = "get_or_add"
    /\ last.on = "p:spPr"
    /\ IsElem(last.ret, [tag |-> "a:xfrm", gen |-> 1])
    /\ Count("p:spPr", {"a:xfrm"}) = 1

XfrmAbsent == ~Present("p:spPr", "a:xfrm")
OffAbsent  == XfrmAbsent \/ ~Present("a:xfrm", "a:off")
ExtAbsent  == XfrmAbsent \/ ~Present("a:xfrm", "a:ext")

\* C4: reading x or y gives None when a:xfrm or a:off is absent, cx or cy None
\* when a:xfrm or a:ext is absent; rot gives 0.0 and flipH / flipV False when
\* a:xfrm or the attribute is absent; none of these reads raises.
C4_NullPropagation ==
    (root = "p:sp" /\ last.op = "read") =>
        /\ (last.name \in {"x", "y"} /\ OffAbsent) => IsNone(last.ret)
        /\ (last.name \in {"cx", "cy"} /\ ExtAbsent) => IsNone(last.ret)
        /\ (last.name = "rot" /\ (XfrmAbsent \/ "rot" \notin DOMAIN attrs["a:xfrm"]))
              => IsInt(last.ret, 0)
        /\ (last.name \in {"flipH", "flipV"}
               /\ (XfrmAbsent \/ last.name \notin DOMAIN attrs["a:xfrm"]))
              => IsBool(last.ret, FALSE)

\* C4 witness: cx was read as None on a shape that has an a:xfrm without a:ext.
C4_Witness ==
    /\ root = "p:sp"
    /\ last.op = "read"
    /\ last.name = "cx"
    /\ ~XfrmAbsent
    /\ ExtAbsent
    /\ IsNone(last.ret)

ReadsInt(d, name, n) ==
    LET r == BaseShapeElement_get_xfrm_attr(d, name).ret IN r.kind = "int" /\ r.val = n

ReadsNone(d, name) == IsNone(BaseShapeElement_get_xfrm_attr(d, name).ret)

\* C5: after shape.<x|y|cx|cy> = v, whatever the tree was before, exactly one
\* a:xfrm is under p:spPr, it holds a:off (x, y) resp. a:ext (cx, cy), a:off
\* precedes a:ext when both exist, and reading the property gives v.
C5_LazyMaterialization ==
    (root = "p:sp" /\ last.op = "write" /\ last.name \in {"x", "y", "cx", "cy"}) =>
        /\ Count("p:spPr", {"a:xfrm"}) = 1
        /\ last.name \in {"x", "y"} => Count("a:xfrm", {"a:off"}) = 1
        /\ last.name \in {"cx", "cy"} => Count("a:xfrm", {"a:ext"}) = 1
        /\ (~OffAbsent /\ ~ExtAbsent) =>
              Min(IndicesOf(kids["a:xfrm"], {"a:off"}))
                  < Min(IndicesOf(kids["a:xfrm"], {"a:ext"}))
        /\ ReadsInt(Doc, last.name, last.val.val)

\* C5 witness: x = 100 was set on the shape parsed with an empty p:spPr; the
\* a:xfrm and its a:off were both created, and x reads 100.
C5_Witness ==
    /\ root = "p:sp"
    /\ last.op = "write"
    /\ last.name = "x"
    /\ IsInt(last.val, 100)
    /\ kids["p:spPr"] = << [tag |-> "a:xfrm", gen |-> 1] >>
    /\ kids["a:xfrm"] = << [tag |-> "a:off", gen |-> 1] >>
    /\ ReadsInt(Doc, "x", 100)

DashTags == {"a:prstDash", "a:custDash"}

OtherLnChildren(ch) == SelectSeq(ch, LAMBDA c : c.tag \notin DashTags)

PrstDashWritten ==
    (last.op = "write" /\ last.name = "prstDash_val") =>
        /\ Count("a:ln", {"a:custDash"}) = 0
        /\ Count("a:ln", {"a:prstDash"}) = 1
        /\ IsEnum(CT_LineProperties_prstDash_val(Doc).ret, last.val.val)
        /\ SchemaOrdered("a:ln")

PrstDashWriteFrame ==
    (last'.op = "write" /\ last'.name = "prstDash_val") =>
        OtherLnChildren(kids'["a:ln"]) = OtherLnChildren(kids["a:ln"])

\* C6: directly after ln.prstDash_val = v, from any state of the a:ln element,
\* a:custDash is absent, exactly one a:prstDash is present, prstDash_val reads
\* v, and the other children are unchanged and in schema order.
C6_PrstDashWrite == []PrstDashWritten /\ [][PrstDashWriteFrame]_vars

\* C6 witness: prstDash_val was set on an a:ln parsed with a fill, an
\* a:custDash, a:round and a:headEnd; the a:custDash is gone, a new a:prstDash
\* stands between the fill and a:round.
C6_Witness ==
    /\ root = "a:ln"
    /\ last.op = "write"
    /\ last.name = "prstDash_val"
    /\ kids["a:ln"] = << [tag |-> "a:solidFill", gen |-> 0],
                         [tag |-> "a:prstDash", gen |-> 1],
                         [tag |-> "a:round", gen |-> 0],
                         [tag |-> "a:headEnd", gen |-> 0] >>
    /\ IsEnum(CT_LineProperties_prstDash_val(Doc).ret, "DASH")

\* The path first child -> p:nvPr child -> p:ph child resolves.
MarkerPresent ==
    /\ Len(kids["p:sp"]) >= 1
    /\ kids["p:sp"][1].tag \in DOMAIN kids
    /\ \E i \in 1..Len(kids[kids["p:sp"][1].tag]) :
          kids[kids["p:sp"][1].tag][i].tag = "p:nvPr"
    /\ \E j \in 1..Len(kids["p:nvPr"]) : kids["p:nvPr"][j].tag = "p:ph"

PhAttrNames == {"type", "orient", "sz", "idx"}

PhSchemaDefault(n) ==
    CASE n = "idx"    -> IntV(0)
      [] n = "type"   -> EnumV("OBJECT")
      [] n = "orient" -> EnumV("HORZ")
      [] n = "sz"     -> EnumV("FULL")

PhStored(n) ==
    IF n = "idx" THEN IntV(StrToInt(attrs["p:ph"][n]))
    ELSE EnumV(CHOOSE m \in DOMAIN EnumXml : EnumXml[m] = attrs["p:ph"][n])

SameValue(r, v) == r.kind = v.kind /\ r.val = v.val

PlaceholderReads ==
    (root = "p:sp" /\ last.op = "read") =>
        /\ last.name = "has_ph_elm" => IsBool(last.ret, MarkerPresent)
        /\ last.name \in PhAttrNames =>
              /\ (Raised(last.ret) /\ last.ret.val = "ValueError: not a placeholder shape")
                    <=> ~MarkerPresent
              /\ MarkerPresent =>
                    SameValue(last.ret,
                              IF last.name \in DOMAIN attrs["p:ph"]
                              THEN PhStored(last.name) ELSE PhSchemaDefault(last.name))

FailedReadChangesNothing ==
    (last'.op = "read" /\ Raised(last'.ret)) => UNCHANGED <<kids, attrs, made>>

\* C7: has_ph_elm is true iff first child -> p:nvPr -> p:ph resolves; ph_type,
\* ph_orient, ph_sz and ph_idx raise the not-a-placeholder error exactly when
\* the marker is absent, leaving the tree unchanged, and with the marker
\* present return the attribute's value, or the default (idx 0, type OBJECT,
\* orient horz, sz full) when the attribute is missing.
C7_PlaceholderResolver == []PlaceholderReads /\ [][FailedReadChangesNothing]_vars

\* C7 witness: ph_idx returned 0 on a shape whose p:ph has no idx attribute.
C7_Witness ==
    /\ root = "p:sp"
    /\ last.op = "read"
    /\ last.name = "idx"
    /\ MarkerPresent
    /\ "idx" \notin DOMAIN attrs["p:ph"]
    /\ IsInt(last.ret, 0)

RequiredPresent ==
    /\ Present("a:xfrm", "a:off") => {"x", "y"} \subseteq DOMAIN attrs["a:off"]
    /\ Present("a:xfrm", "a:ext") => {"cx", "cy"} \subseteq DOMAIN attrs["a:ext"]

NoSchemaViolationOnRead ==
    (root = "p:sp" /\ RequiredPresent) =>
        \A name \in {"x", "y", "cx", "cy"} :
            ~Raised(BaseShapeElement_get_xfrm_attr(Doc, name).ret)

\* C8: once every a:off holds x and y and every a:ext holds cx and cy, every
\* facade write and every get_or_add keeps it so, and in such a state no read
\* of x, y, cx or cy fails for a missing required attribute.
C8_RequiredAttributes ==
    []NoSchemaViolationOnRead /\ [][RequiredPresent => RequiredPresent']_vars

\* C8 witness: y was read as 0 from an a:off that the descriptor created.
C8_Witness ==
    /\ root = "p:sp"
    /\ last.op = "read"
    /\ last.name = "y"
    /\ IsInt(last.ret, 0)
    /\ kids["a:xfrm"] = << [tag |-> "a:off", gen |-> 1] >>
    /\ RequiredPresent

ReadLeavesTreeUnchanged ==
    last'.op \in {"read", "get"} => UNCHANGED <<kids, attrs, made>>

\* C9: every read (x, y, cx, cy, rot, flipH, flipV, xfrm, ph, has_ph_elm,
\* ph_idx, ph_orient, ph_sz, ph_type, prstDash_val, a slot's getter) leaves
\* the whole tree unchanged, whatever it returns.
C9_ReadsArePure == [][ReadLeavesTreeUnchanged]_vars

\* C9 witness: x was read as None on a shape with no a:xfrm, and there still
\* is none.
C9_Witness ==
    /\ root = "p:sp"
    /\ last.op = "read"
    /\ last.name = "x"
    /\ IsNone(last.ret)
    /\ XfrmAbsent
    /\ kids["a:xfrm"] = << >>

Sibling(n) ==
    CASE n = "x" -> "y" [] n = "y" -> "x" [] n = "cx" -> "cy" [] n = "cy" -> "cx"

PartialWrite ==
    /\ (last'.op = "write" /\ last'.name \in {"x", "y"} /\ OffAbsent) =>
          /\ ReadsInt(Doc', Sibling(last'.name), 0)
          /\ ExtAbsent => (ReadsNone(Doc', "cx") /\ ReadsNone(Doc', "cy"))
    /\ (last'.op = "write" /\ last'.name \in {"cx", "cy"} /\ ExtAbsent) =>
          /\ ReadsInt(Doc', Sibling(last'.name), 0)
          /\ OffAbsent => (ReadsNone(Doc', "x") /\ ReadsNone(Doc', "y"))
    /\ (last'.op = "write" /\ last'.name \in {"rot", "flipH", "flipV"} /\ XfrmAbsent) =>
          \A n \in {"x", "y", "cx", "cy"} : ReadsNone(Doc', n)

\* C10: a write of x (y) while a:off is absent leaves y (x) reading 0, a write
\* of cx (cy) while a:ext is absent leaves cy (cx) reading 0; the write does
\* not create the other sub-element, and a write of rot, flipH or flipV on a
\* shape with no a:xfrm leaves x, y, cx and cy reading None.
C10_PartialWrite == [][PartialWrite]_vars

\* C10 witness: after x = 100 on a shape parsed with an empty p:spPr, y reads
\* 0 and cx reads None.
C10_Witness ==
    /\ root = "p:sp"
    /\ last.op = "write"
    /\ last.name = "x"
    /\ kids["p:spPr"] = << [tag |-> "a:xfrm", gen |-> 1] >>
    /\ kids["a:xfrm"] = << [tag |-> "a:off", gen |-> 1] >>
    /\ ReadsInt(Doc, "x", 100)
    /\ ReadsInt(Doc, "y", 0)
    /\ ReadsNone(Doc, "cx")

=============================================================================
